---------------------------- MODULE Spec2Model ----------------------------
(***************************************************************************)
(* Model of example/versions.py: the version catalog sw_versions, the axis *)
(* builders (get_compiler_versions, get_backend_versions,                  *)
(* get_sw_tuple_list), the single-backend matrix and the recursive         *)
(* Cartesian product create_combination_matrix.                            *)
(*                                                                         *)
(* Python lists are objects with identity.  The lists that                 *)
(* create_combination_matrix touches live in `heap` (a sequence of list    *)
(* contents, a reference is an index into it); input_list and              *)
(* combination_matrix hold references.  The recursion is unfolded into an  *)
(* explicit call stack, one action per executed block of the function.     *)
(* axes_at_call records the value of input_list when the call was made.    *)
(***************************************************************************)
EXTENDS Integers, Sequences, FiniteSets, TLC

VARIABLES pc, op, clang_cuda, name, result, error,
          heap, stack, input_list, combination_matrix, axes_at_call

vars == <<pc, op, clang_cuda, name, result, error,
          heap, stack, input_list, combination_matrix, axes_at_call>>

---------------------------------------------------------------------------
(* Identifiers imported from alpaka_job_coverage.globals / example_globals *)

GCC == "gcc"
CLANG == "clang"
NVCC == "nvcc"
HIPCC == "hipcc"
CLANG_CUDA == "clang-cuda"
BACKENDS == "alpaka_backends"
UBUNTU == "ubuntu"
CMAKE == "cmake"
BOOST == "boost"
ALPAKA == "alpaka"
CXX_STANDARD == "cxx_standard"
ALPAKA_ACC_CPU_B_SEQ_T_SEQ_ENABLE == "alpaka_ACC_CPU_B_SEQ_T_SEQ_ENABLE"
ALPAKA_ACC_CPU_B_OMP2_T_SEQ_ENABLE == "alpaka_ACC_CPU_B_OMP2_T_SEQ_ENABLE"
ALPAKA_ACC_GPU_CUDA_ENABLE == "alpaka_ACC_GPU_CUDA_ENABLE"
ALPAKA_ACC_GPU_HIP_ENABLE == "alpaka_ACC_GPU_HIP_ENABLE"
ON == "on"
OFF == "off"

(* The catalog: axis identifier -> ordered version strings.                *)
sw_versions ==
    (GCC :> <<"5", "6", "7", "8", "9", "10", "11">>)
 @@ (CLANG :> <<"6.0", "7", "8", "9", "10", "11", "12", "13", "14", "15">>)
 @@ (NVCC :> <<"10.0", "11.0", "11.1", "11.2", "11.3", "11.4", "11.5", "11.6">>)
 @@ (HIPCC :> <<"4.3", "4.5", "5.0", "5.1">>)
 @@ (BACKENDS :> <<ALPAKA_ACC_CPU_B_SEQ_T_SEQ_ENABLE,
                   ALPAKA_ACC_CPU_B_OMP2_T_SEQ_ENABLE,
                   ALPAKA_ACC_GPU_CUDA_ENABLE,
                   ALPAKA_ACC_GPU_HIP_ENABLE>>)
 @@ (UBUNTU :> <<"18.04", "20.04">>)
 @@ (CMAKE :> <<"3.18.6", "3.19.8", "3.20.6", "3.21.6", "3.22.3">>)
 @@ (BOOST :> <<"1.66.0", "1.67.0", "1.74.0", "1.75.0", "1.76.0", "1.77.0",
                "1.78.0">>)
 @@ (ALPAKA :> <<"0.6.0", "0.6.1", "0.7.0", "0.8.0", "0.9.0", "develop">>)
 @@ (CXX_STANDARD :> <<"14", "17", "20">>)

---------------------------------------------------------------------------
(* Bounds of the explored inputs                                           *)

MaxAxes == 2
MaxLen == 2

(* Entries the callers of create_combination_matrix put into the axes.     *)
Entries == {<<CMAKE, "3.18.6">>, <<BOOST, "1.66.0">>}

(* Names get_sw_tuple_list is called with: every catalog key and two       *)
(* identifiers the catalog has no entry for.                               *)
RequestedNames == DOMAIN sw_versions \cup {CLANG_CUDA, "UNKNOWN_AXIS"}

SeqsUpTo(S, n) == UNION {[1..k -> S] : k \in 0..n}

AxisSequences == SeqsUpTo(Entries, MaxLen)

InputLists == SeqsUpTo(AxisSequences, MaxAxes)

---------------------------------------------------------------------------
(* get_compiler_versions, lines 37-56                                      *)

RECURSIVE compiler_version_loop(_, _, _, _)
compiler_version_loop(compiler_name, versions, cc, compilers) ==
    IF versions = <<>> THEN compilers
    ELSE LET version == Head(versions)
             c1 == Append(compilers, <<compiler_name, version>>)
             c2 == IF cc /\ compiler_name = CLANG
                   THEN Append(c1, <<CLANG_CUDA, version>>)
                   ELSE c1
         IN compiler_version_loop(compiler_name, Tail(versions), cc, c2)

RECURSIVE compiler_name_loop(_, _, _)
compiler_name_loop(names, cc, compilers) ==
    IF names = <<>> THEN compilers
    ELSE compiler_name_loop(Tail(names), cc,
            compiler_version_loop(Head(names), sw_versions[Head(names)],
                                  cc, compilers))

(* Variant that collects the clang-cuda entries after all base entries.    *)
get_compiler_versions_batched(cc) ==
    LET base == compiler_name_loop(<<GCC, CLANG, NVCC, HIPCC>>, FALSE, <<>>)
    IN IF cc
       THEN base \o [i \in 1..Len(sw_versions[CLANG]) |->
                        <<CLANG_CUDA, sw_versions[CLANG][i]>>]
       ELSE base

get_compiler_versions(cc) ==
    compiler_name_loop(<<GCC, CLANG, NVCC, HIPCC>>, cc, <<>>)

---------------------------------------------------------------------------
(* get_backend_versions, lines 59-87                                       *)

RECURSIVE append_versions(_, _, _)
append_versions(backend_name, versions, backend_list) ==
    IF versions = <<>> THEN backend_list
    ELSE append_versions(backend_name, Tail(versions),
                         Append(backend_list, <<backend_name, Head(versions)>>))

(* Variant that forgets the else branch for the CPU-only backends.         *)
backend_state_list_no_on(backend_name) ==
    LET backend_list == << <<backend_name, OFF>> >>
    IN IF backend_name = ALPAKA_ACC_GPU_CUDA_ENABLE
       THEN append_versions(backend_name, sw_versions[NVCC], backend_list)
       ELSE IF backend_name = ALPAKA_ACC_GPU_HIP_ENABLE
       THEN append_versions(backend_name, sw_versions[HIPCC], backend_list)
       ELSE backend_list

backend_state_list(backend_name) ==
    LET backend_list == << <<backend_name, OFF>> >>
    IN IF backend_name = ALPAKA_ACC_GPU_CUDA_ENABLE
       THEN append_versions(backend_name, sw_versions[NVCC], backend_list)
       ELSE IF backend_name = ALPAKA_ACC_GPU_HIP_ENABLE
       THEN append_versions(backend_name, sw_versions[HIPCC], backend_list)
       ELSE Append(backend_list, <<backend_name, ON>>)

RECURSIVE backend_loop(_, _)
backend_loop(backend_names, backends) ==
    IF backend_names = <<>> THEN backends
    ELSE backend_loop(Tail(backend_names),
                      Append(backends, backend_state_list(Head(backend_names))))

get_backend_versions == backend_loop(sw_versions[BACKENDS], <<>>)

---------------------------------------------------------------------------
(* get_backend_single_matrix, lines 130-151                                *)

RECURSIVE single_loop(_, _, _)
single_loop(backend_name, versions, matrix) ==
    IF versions = <<>> THEN matrix
    ELSE single_loop(backend_name, Tail(versions),
                     Append(matrix, << <<backend_name, Head(versions)>> >>))

(* Variant that pairs every accelerator entry with the other one, OFF.     *)
get_backend_single_matrix_with_off ==
    LET m0 == << << <<ALPAKA_ACC_CPU_B_SEQ_T_SEQ_ENABLE, ON>>,
                    <<ALPAKA_ACC_CPU_B_OMP2_T_SEQ_ENABLE, ON>> >> >>
        m1 == m0 \o [i \in 1..Len(sw_versions[NVCC]) |->
                 << <<ALPAKA_ACC_GPU_CUDA_ENABLE, sw_versions[NVCC][i]>>,
                    <<ALPAKA_ACC_GPU_HIP_ENABLE, OFF>> >>]
    IN m1 \o [i \in 1..Len(sw_versions[HIPCC]) |->
                 << <<ALPAKA_ACC_GPU_CUDA_ENABLE, OFF>>,
                    <<ALPAKA_ACC_GPU_HIP_ENABLE, sw_versions[HIPCC][i]>> >>]

get_backend_single_matrix ==
    LET m0 == << << <<ALPAKA_ACC_CPU_B_SEQ_T_SEQ_ENABLE, ON>>,
                    <<ALPAKA_ACC_CPU_B_OMP2_T_SEQ_ENABLE, ON>> >> >>
        m1 == single_loop(ALPAKA_ACC_GPU_CUDA_ENABLE, sw_versions[NVCC], m0)
    IN single_loop(ALPAKA_ACC_GPU_HIP_ENABLE, sw_versions[HIPCC], m1)

---------------------------------------------------------------------------
(* get_sw_tuple_list, lines 154-168.  The subscript sw_versions[name] of   *)
(* the dict raises KeyError(name) when the key is missing, before          *)
(* anything has been appended.                                             *)

NoError == [kind |-> "none", key |-> ""]

RECURSIVE tuple_loop(_, _, _)
tuple_loop(n, versions, tuple_list) ==
    IF versions = <<>> THEN tuple_list
    ELSE tuple_loop(n, Tail(versions), Append(tuple_list, <<n, Head(versions)>>))

(* Variant that looks the key up with a default, sw_versions.get(name, []) *)
get_sw_tuple_list_default(n) ==
    IF n \in DOMAIN sw_versions
    THEN [value |-> tuple_loop(n, sw_versions[n], <<>>), error |-> NoError]
    ELSE [value |-> <<>>, error |-> NoError]

get_sw_tuple_list(n) ==
    IF n \in DOMAIN sw_versions
    THEN [value |-> tuple_loop(n, sw_versions[n], <<>>), error |-> NoError]
    ELSE [value |-> <<>>, error |-> [kind |-> "KeyError", key |-> n]]

---------------------------------------------------------------------------
(* create_combination_matrix, lines 104-127: the list operations           *)

(* index < len(input_list), line 119 *)
InRangeOffByOne(index, il) == index + 1 < Len(il)

InRange(index, il) == index < Len(il)

(* the for loop of line 120 has another element of the axis to visit *)
HasNextSkipLast(pos, axis) == pos + 1 < Len(axis)

HasNext(pos, axis) == pos < Len(axis)

(* current_combination[:], line 121: a new list object with equal content *)
CopyListAlias(h, ref) == [heap |-> h, ref |-> ref]

CopyList(h, ref) == [heap |-> Append(h, h[ref]), ref |-> Len(h) + 1]

(* list.append on the list object ref, line 122 *)
ListAppend(h, ref, x) == [h EXCEPT ![ref] = Append(@, x)]

(* combination_matrix.append(current_combination), line 127 *)
MatrixAppendNothing(cm, ref) == cm

MatrixAppend(cm, ref) == Append(cm, ref)

(* a call frame: the arguments index and current_combination, the position *)
(* of the for loop and the local current_combination_copy (0: unbound)     *)
Frame(index, cur) ==
    [index |-> index, current_combination |-> cur, pos |-> 0,
     current_combination_copy |-> 0]

Top == stack[Len(stack)]

Pop == SubSeq(stack, 1, Len(stack) - 1)

(* the content of a list of references *)
Deref(h, refs) == [i \in 1..Len(refs) |-> h[refs[i]]]

---------------------------------------------------------------------------
Init ==
    /\ pc = "idle"
    /\ op = "none"
    /\ clang_cuda = TRUE
    /\ name = ""
    /\ result = <<>>
    /\ error = NoError
    /\ heap = <<>>
    /\ stack = <<>>
    /\ input_list = <<>>
    /\ combination_matrix = <<>>
    /\ axes_at_call = <<>>

CallGetCompilerVersions ==
    /\ pc = "idle"
    /\ \E cc \in BOOLEAN :
         /\ clang_cuda' = cc
         /\ result' = get_compiler_versions(cc)
    /\ op' = "get_compiler_versions"
    /\ pc' = "done"
    /\ UNCHANGED <<name, error, heap, stack, input_list, combination_matrix,
                   axes_at_call>>

CallGetBackendVersions ==
    /\ pc = "idle"
    /\ result' = get_backend_versions
    /\ op' = "get_backend_versions"
    /\ pc' = "done"
    /\ UNCHANGED <<clang_cuda, name, error, heap, stack, input_list,
                   combination_matrix, axes_at_call>>

CallGetBackendSingleMatrix ==
    /\ pc = "idle"
    /\ result' = get_backend_single_matrix
    /\ op' = "get_backend_single_matrix"
    /\ pc' = "done"
    /\ UNCHANGED <<clang_cuda, name, error, heap, stack, input_list,
                   combination_matrix, axes_at_call>>

CallGetSwTupleList ==
    /\ pc = "idle"
    /\ \E n \in RequestedNames :
         /\ name' = n
         /\ result' = get_sw_tuple_list(n).value
         /\ error' = get_sw_tuple_list(n).error
    /\ op' = "get_sw_tuple_list"
    /\ pc' = "done"
    /\ UNCHANGED <<clang_cuda, heap, stack, input_list, combination_matrix,
                   axes_at_call>>

(* The top-level call create_combination_matrix(0, [], axes, out) with a   *)
(* fresh empty out: the axis sequences are the list objects 1..Len(axes),  *)
(* the initial current_combination is the list object Len(axes) + 1.       *)
StartCall(axes, opname) ==
    /\ heap' = Append(axes, <<>>)
    /\ input_list' = [i \in 1..Len(axes) |-> i]
    /\ combination_matrix' = <<>>
    /\ axes_at_call' = axes
    /\ stack' = <<Frame(0, Len(axes) + 1)>>
    /\ op' = opname
    /\ pc' = "running"
    /\ UNCHANGED <<clang_cuda, name, result, error>>

CallCreateCombinationMatrix ==
    /\ pc = "idle"
    /\ \E axes \in InputLists : StartCall(axes, "create_combination_matrix")

(* get_backend_combination_matrix, lines 90-101 *)
CallGetBackendCombinationMatrix ==
    /\ pc = "idle"
    /\ StartCall(get_backend_versions, "get_backend_combination_matrix")

(* What popping the active frame does: return into the caller's loop, or,  *)
(* from the outermost frame, hand combination_matrix to the caller.        *)
ReturnFrom(h, cm) ==
    /\ stack' = Pop
    /\ IF Len(stack) = 1
       THEN /\ pc' = "done"
            /\ result' = Deref(h, cm)
       ELSE /\ pc' = pc
            /\ result' = result

(* lines 120-125: one iteration of the loop up to the recursive call *)
Branch ==
    /\ pc = "running"
    /\ stack # <<>>
    /\ InRange(Top.index, input_list)
    /\ HasNext(Top.pos, heap[input_list[Top.index + 1]])
    /\ LET version == heap[input_list[Top.index + 1]][Top.pos + 1]
           copied == CopyList(heap, Top.current_combination)
           caller == [Top EXCEPT !.pos = @ + 1,
                                 !.current_combination_copy = copied.ref]
       IN /\ heap' = ListAppend(copied.heap, copied.ref, version)
          /\ stack' = Append(Append(Pop, caller),
                             Frame(Top.index + 1, copied.ref))
    /\ UNCHANGED <<pc, op, clang_cuda, name, result, error, input_list,
                   combination_matrix, axes_at_call>>

(* line 120, loop exhausted: the call returns *)
LoopExit ==
    /\ pc = "running"
    /\ stack # <<>>
    /\ InRange(Top.index, input_list)
    /\ ~HasNext(Top.pos, heap[input_list[Top.index + 1]])
    /\ ReturnFrom(heap, combination_matrix)
    /\ UNCHANGED <<op, clang_cuda, name, error, heap, input_list,
                   combination_matrix, axes_at_call>>

(* lines 126-127: the combination is complete *)
Emit ==
    /\ pc = "running"
    /\ stack # <<>>
    /\ ~InRange(Top.index, input_list)
    /\ combination_matrix' = MatrixAppend(combination_matrix,
                                          Top.current_combination)
    /\ ReturnFrom(heap, combination_matrix')
    /\ UNCHANGED <<op, clang_cuda, name, error, heap, input_list,
                   axes_at_call>>

Next ==
    \/ CallGetCompilerVersions
    \/ CallGetBackendVersions
    \/ CallGetBackendSingleMatrix
    \/ CallGetSwTupleList
    \/ CallCreateCombinationMatrix
    \/ CallGetBackendCombinationMatrix
    \/ Branch
    \/ LoopExit
    \/ Emit

Spec == Init /\ [][Next]_vars

(* A started call keeps executing: the interpreter runs the single thread  *)
(* of the recursion until the outermost call returns.                      *)
Run == Branch \/ LoopExit \/ Emit

FairSpec == Spec /\ WF_vars(Run)

---------------------------------------------------------------------------
(* Vocabulary of the properties                                            *)

ProductOps == {"create_combination_matrix", "get_backend_combination_matrix"}

ProductDone == pc = "done" /\ op \in ProductOps

(* the content of out *)
Out == Deref(heap, combination_matrix)

RECURSIVE ProductOfLengths(_)
ProductOfLengths(axes) ==
    IF axes = <<>> THEN 1 ELSE Len(Head(axes)) * ProductOfLengths(Tail(axes))

(* number of selections over the axes after axis i *)
Weight(axes, i) == ProductOfLengths(SubSeq(axes, i + 1, Len(axes)))

(* element i of the k-th selection (k from 1) in the order of nested loops *)
(* with axis 1 outermost                                                   *)
Selected(axes, k, i) ==
    axes[i][(((k - 1) \div Weight(axes, i)) % Len(axes[i])) + 1]

NoDuplicates(seq) ==
    \A i, j \in 1..Len(seq) : i # j => seq[i] # seq[j]

HasEmptyAxis(axes) == \E i \in 1..Len(axes) : axes[i] = <<>>

---------------------------------------------------------------------------
(* C1: after create_combination_matrix(0, [], input_list, out) with an     *)
(* empty out, the number of combinations in out is the product of the      *)
(* lengths of the sequences of input_list.                                 *)
C1_CartesianSize ==
    ProductDone => Len(combination_matrix) = ProductOfLengths(axes_at_call)

C1_Witness ==
    /\ ProductDone
    /\ op = "create_combination_matrix"
    /\ Len(axes_at_call) = 2
    /\ \A i \in 1..2 : Len(axes_at_call[i]) = 2
    /\ Len(combination_matrix) = 4

(* C2: out holds exactly the selections of one element per axis, element i *)
(* from axis i, in the order of nested loops with axis 0 outermost and     *)
(* every axis iterated in its own order.                                   *)
C2_NestedIterationOrder ==
    ProductDone =>
        /\ Len(Out) = ProductOfLengths(axes_at_call)
        /\ \A k \in 1..Len(Out) :
             /\ Len(Out[k]) = Len(axes_at_call)
             /\ \A i \in 1..Len(axes_at_call) :
                  Out[k][i] = Selected(axes_at_call, k, i)

C2_Witness ==
    /\ ProductDone
    /\ axes_at_call = << <<<<CMAKE, "3.18.6">>, <<BOOST, "1.66.0">>>>,
                         <<<<BOOST, "1.66.0">>, <<CMAKE, "3.18.6">>>> >>
    /\ Out = << <<<<CMAKE, "3.18.6">>, <<BOOST, "1.66.0">>>>,
                <<<<CMAKE, "3.18.6">>, <<CMAKE, "3.18.6">>>>,
                <<<<BOOST, "1.66.0">>, <<BOOST, "1.66.0">>>>,
                <<<<BOOST, "1.66.0">>, <<CMAKE, "3.18.6">>>> >>

(* C3: when the entries of every axis sequence are pairwise distinct, the  *)
(* combinations of the matrix are pairwise distinct as ordered tuples;     *)
(* this covers get_backend_combination_matrix.                             *)
C3_NoDuplicateCombinations ==
    (ProductDone /\ \A i \in 1..Len(axes_at_call) : NoDuplicates(axes_at_call[i]))
        => NoDuplicates(Out)

C3_Witness ==
    /\ pc = "done"
    /\ op = "get_backend_combination_matrix"
    /\ \A i \in 1..Len(axes_at_call) : NoDuplicates(axes_at_call[i])
    /\ Len(Out) = 180

(* C4: with an empty axis sequence at any position the call raises nothing *)
(* and out stays empty, whatever the other axes are.                       *)
EmptyAxisCall == op \in ProductOps /\ HasEmptyAxis(axes_at_call)

NothingEmitted ==
    /\ combination_matrix = <<>>
    /\ error = NoError
    /\ (pc = "done" => result = <<>>)

C4_EmptyAxisEmptyMatrix ==
    /\ [](EmptyAxisCall => NothingEmitted)
    /\ (EmptyAxisCall /\ pc = "running") ~> (EmptyAxisCall /\ pc = "done")

C4_Witness ==
    /\ ProductDone
    /\ Len(axes_at_call) = 2
    /\ Len(axes_at_call[1]) = 2
    /\ axes_at_call[2] = <<>>
    /\ combination_matrix = <<>>

(* C5: create_combination_matrix(0, [], [], out) leaves exactly one        *)
(* element in out, the empty combination.                                  *)
C5_EmptyInputIdentity ==
    (ProductDone /\ axes_at_call = <<>>) => Out = << <<>> >>

C5_Witness ==
    /\ ProductDone
    /\ axes_at_call = <<>>
    /\ Len(combination_matrix) = 1

---------------------------------------------------------------------------
OfFamily(seq, family) == SelectSeq(seq, LAMBDA t : t[1] = family)

CatalogPairs(n) == [i \in 1..Len(sw_versions[n]) |-> <<n, sw_versions[n][i]>>]

(* C6: with clang_cuda, (CLANG_CUDA, v) sits immediately after (CLANG, v)  *)
(* for every CLANG version v; without it no CLANG_CUDA entry exists; every *)
(* compiler family contributes one pair per catalog version, in order.     *)
C6_DerivedVariantAdjacency ==
    (pc = "done" /\ op = "get_compiler_versions") =>
        /\ \A f \in {GCC, CLANG, NVCC, HIPCC} :
             OfFamily(result, f) = CatalogPairs(f)
        /\ \A i \in 1..Len(result) :
             result[i][1] \in {GCC, CLANG, NVCC, HIPCC, CLANG_CUDA}
        /\ clang_cuda =>
             /\ \A i \in 1..Len(result) :
                  result[i][1] = CLANG =>
                      /\ i < Len(result)
                      /\ result[i + 1] = <<CLANG_CUDA, result[i][2]>>
             /\ \A i \in 1..Len(result) :
                  result[i][1] = CLANG_CUDA =>
                      /\ i > 1
                      /\ result[i - 1] = <<CLANG, result[i][2]>>
        /\ ~clang_cuda => OfFamily(result, CLANG_CUDA) = <<>>

C6_Witness ==
    /\ pc = "done"
    /\ op = "get_compiler_versions"
    /\ clang_cuda
    /\ Len(OfFamily(result, CLANG_CUDA)) = Len(sw_versions[CLANG])

(* C7: get_backend_versions has one sequence per backend of BACKENDS, in   *)
(* catalog order; each starts with (backend, OFF), followed by the NVCC    *)
(* versions for CUDA, the HIPCC versions for HIP, a single ON otherwise.   *)
C7_BackendAxes ==
    (pc = "done" /\ op = "get_backend_versions") =>
        /\ Len(result) = Len(sw_versions[BACKENDS])
        /\ \A b \in 1..Len(result) :
             LET backend == sw_versions[BACKENDS][b]
                 states == [i \in 1..Len(result[b]) |-> result[b][i][2]]
             IN /\ \A i \in 1..Len(result[b]) : result[b][i][1] = backend
                /\ states =
                     IF backend = ALPAKA_ACC_GPU_CUDA_ENABLE
                     THEN <<OFF>> \o sw_versions[NVCC]
                     ELSE IF backend = ALPAKA_ACC_GPU_HIP_ENABLE
                     THEN <<OFF>> \o sw_versions[HIPCC]
                     ELSE <<OFF, ON>>

C7_Witness ==
    /\ pc = "done"
    /\ op = "get_backend_versions"
    /\ Len(result) = 4
    /\ Len(result[3]) = 9
    /\ result[1][2] = <<ALPAKA_ACC_CPU_B_SEQ_T_SEQ_ENABLE, ON>>

(* C8: get_backend_single_matrix has 1 + |NVCC| + |HIPCC| combinations:    *)
(* the pair switching both CPU backends ON, or one accelerator backend at  *)
(* one of its catalog versions; none holds OFF or two accelerators.        *)
C8_SingleBackendMatrix ==
    (pc = "done" /\ op = "get_backend_single_matrix") =>
        /\ Len(result) = 1 + Len(sw_versions[NVCC]) + Len(sw_versions[HIPCC])
        /\ \A k \in 1..Len(result) :
             \/ result[k] = << <<ALPAKA_ACC_CPU_B_SEQ_T_SEQ_ENABLE, ON>>,
                               <<ALPAKA_ACC_CPU_B_OMP2_T_SEQ_ENABLE, ON>> >>
             \/ /\ Len(result[k]) = 1
                /\ \/ /\ result[k][1][1] = ALPAKA_ACC_GPU_CUDA_ENABLE
                      /\ \E i \in 1..Len(sw_versions[NVCC]) :
                           result[k][1][2] = sw_versions[NVCC][i]
                   \/ /\ result[k][1][1] = ALPAKA_ACC_GPU_HIP_ENABLE
                      /\ \E i \in 1..Len(sw_versions[HIPCC]) :
                           result[k][1][2] = sw_versions[HIPCC][i]
        /\ \A k \in 1..Len(result) : \A i \in 1..Len(result[k]) :
             result[k][i][2] # OFF

C8_Witness ==
    /\ pc = "done"
    /\ op = "get_backend_single_matrix"
    /\ Len(result) = 13
    /\ result[13] = << <<ALPAKA_ACC_GPU_HIP_ENABLE, "5.1">> >>

(* C9 as stated: get_sw_tuple_list(name) returns one (name, version) pair  *)
(* per catalog version in catalog order for a name of the catalog, and     *)
(* fails with a MissingAxisError naming the identifier otherwise.          *)
C9_MissingAxisError ==
    (pc = "done" /\ op = "get_sw_tuple_list") =>
        IF name \in DOMAIN sw_versions
        THEN error = NoError /\ result = CatalogPairs(name)
        ELSE error = [kind |-> "MissingAxisError", key |-> name]

(* C9 amended: get_sw_tuple_list(name) returns one (name, version) pair    *)
(* per catalog version in catalog order for a name of the catalog, and     *)
(* fails with the KeyError of the dict lookup, carrying the identifier,    *)
(* otherwise; it returns nothing in that case.                             *)
C9_KeyErrorOnMissingAxis ==
    (pc = "done" /\ op = "get_sw_tuple_list") =>
        IF name \in DOMAIN sw_versions
        THEN error = NoError /\ result = CatalogPairs(name)
        ELSE error = [kind |-> "KeyError", key |-> name] /\ result = <<>>

C9_Witness ==
    /\ pc = "done"
    /\ op = "get_sw_tuple_list"
    /\ name = "UNKNOWN_AXIS"
    /\ error.kind = "KeyError"

---------------------------------------------------------------------------
FrameRefs == {stack[f].current_combination : f \in 1..Len(stack)}

(* no list object is in out twice, and no two frames work on one list *)
NoSharedPrefix ==
    /\ \A i, j \in 1..Len(combination_matrix) :
         i # j => combination_matrix[i] # combination_matrix[j]
    /\ \A f, g \in 1..Len(stack) :
         f # g => stack[f].current_combination # stack[g].current_combination

(* a step keeps what out holds, the prefixes of the frames and the input *)
StepKeepsLists ==
    /\ \A i \in 1..Len(combination_matrix) :
         /\ i <= Len(combination_matrix')
         /\ combination_matrix'[i] = combination_matrix[i]
         /\ heap'[combination_matrix[i]] = heap[combination_matrix[i]]
    /\ \A r \in FrameRefs : heap'[r] = heap[r]
    /\ input_list' = input_list
    /\ \A i \in 1..Len(input_list) : heap'[input_list[i]] = heap[input_list[i]]
    /\ Deref(heap', input_list') = axes_at_call

(* C10: every branch of the recursion works on its own copy of the prefix: *)
(* a combination appended to out never changes afterwards, no two emitted  *)
(* combinations are the same list object, and no step modifies the prefix  *)
(* of a frame on the stack, input_list or an axis sequence.                *)
C10_IndependentPrefixCopies ==
    /\ [](pc \in {"running", "done"} /\ op \in ProductOps => NoSharedPrefix)
    /\ [][pc = "running" => StepKeepsLists]_vars

C10_Witness ==
    /\ pc = "running"
    /\ Len(combination_matrix) >= 2
    /\ Len(stack) >= 2
    /\ Top.pos = 1

===========================================================================
